---------------------------- MODULE Spec2Model ----------------------------
(***************************************************************************)
(* State-machine model of src/chunk_reproject_3857_tiles.py:               *)
(* chunk_reproject_to_3857_png, the resumable tile pipeline.               *)
(*                                                                         *)
(* The disk (tile image files, tile_manifest.json) outlives a process; a   *)
(* process is one call of chunk_reproject_to_3857_png.  Floating-point     *)
(* coordinates are integers here (metres), file names are the pair         *)
(* <<ty, tx>> that the name is formatted from, and the manifest document   *)
(* is the JSON value that json.dump writes and json.load reads back.       *)
(***************************************************************************)
EXTENDS Integers, Sequences, FiniteSets

(* ------------------------------ bounds -------------------------------- *)
\* virtual-raster sizes and tile edges explored by the pipeline runs
MaxW == 2
MaxH == 2
MaxE == 2
\* virtual-raster sizes and tile edges explored by the planner-only runs
MaxGridDim == 4
MaxGridEdge == 3
\* calls of chunk_reproject_to_3857_png in one behaviour
MaxRuns == 2
\* process terminations and file deletions in one behaviour
MaxEvents == 1
\* items of a manifest document found in the output directory
MaxDocLen == 2
\* how far beyond [0, 1] the pixel values explored reach, in units of 0.0001
MaxOver == 150
\* the land-use codes explored are 0..MaxCode
MaxCode == 101
\* the resolutions explored are 1.0 m to 1.0 m + MaxResTenths / 10
MaxResTenths == 12
\* tile rows and columns explored in tile names are 0..MaxIndex
MaxIndex == 1

(* ------------------------- program constants -------------------------- *)
\* target_res, metres per pixel
target_res == 150

\* vrt.transform: the upper-left corner of the virtual raster (c, f)
VrtOrigin == <<-3000, 6000>>

VARIABLES
    width,          \* vrt.width
    height,         \* vrt.height
    tile_size,      \* tile_size
    files,          \* out_dir: existing tile file name -> "complete" | "partial"
    doc,            \* out_dir / tile_manifest.json
    pc,             \* position of the process
    tile_manifest,  \* the dict, in insertion order
    n_tiles_x,
    n_tiles_y,
    ty,
    tx,
    pbar,           \* pbar.n
    runs,           \* calls so far
    events,         \* terminations and deletions so far
    startDoc,       \* history: doc when this call began
    work,           \* history: tiles read, classified and saved by this call
    visited,        \* history: <<ty, tx, window>> of this call's loop, in order
    prev,           \* history: how the previous call ended
    deleted,        \* history: tile files deleted since the previous call
    src_crs,        \* src.crs of the source raster
    nodata,         \* src.nodata, the no-data value handed to landuse_to_rgba
    name_args,      \* two settings <<stem, target_res, ty, tx>> whose tile names are compared
    tile_names,     \* the tile_name formatted for each of them
    failed,         \* history: the tile at which this call raised, if any
    block,          \* the pixels vrt.read returns for one window
    rgb             \* the colours computed for block

vars == <<width, height, tile_size, files, doc, pc, tile_manifest, n_tiles_x,
          n_tiles_y, ty, tx, pbar, runs, events, startDoc, work, visited,
          prev, deleted, src_crs, nodata, name_args, tile_names, failed, block, rgb>>

(* ------------------------- documents on disk -------------------------- *)
NoName == <<>>
NoBox == <<>>

\* a JSON object of the manifest list
Dict(fn, url, bbox) ==
    [kind |-> "dict", filename |-> fn, url |-> url, bbox |-> bbox, crs |-> "EPSG:3857"]

\* a JSON value of the list that is no object (a number, a string, null)
NonDict == [kind |-> "other", filename |-> NoName, url |-> NoName, bbox |-> NoBox, crs |-> ""]

\* an object with no "filename" key (or an empty one)
NoFilename == Dict(NoName, NoName, <<0, 0, 1, 1>>)

AbsentDoc == [kind |-> "absent", items |-> <<>>]
\* not JSON at all: empty, truncated or garbage
GarbageDoc == [kind |-> "garbage", items |-> <<>>]
JsonDoc(items) == [kind |-> "json", items |-> items]

\* a tile name no grid of the explored sizes has (left by a run with other settings)
StaleName == <<MaxH, MaxW>>

PriorItems ==
    { Dict(<<0, 0>>, <<0, 0>>, <<0, 0, 0, 0>>),
      Dict(StaleName, StaleName, <<0, 0, 1, 1>>),
      Dict(StaleName, StaleName, <<0, 0, 2, 2>>),
      NonDict,
      NoFilename }

SeqsUpTo(S, n) == UNION { [1..k -> S] : k \in 0..n }

PriorDocs == {AbsentDoc, GarbageDoc} \cup { JsonDoc(s) : s \in SeqsUpTo(PriorItems, MaxDocLen) }

(* ------------------------------ planner ------------------------------- *)
\* the tile count rounded down
NTilesFloor(dim, edge) == dim \div edge

\* the tile count as the quotient plus one
NTilesPlusOne(dim, edge) == dim \div edge + 1

NTiles(dim, edge) == (dim + edge - 1) \div edge

Min(a, b) == IF a < b THEN a ELSE b

\* Window(col_off, row_off, w, h) of tile (y, x)
WindowOf(y, x) ==
    LET col_off == x * tile_size
        row_off == y * tile_size
    IN  <<col_off, row_off, Min(tile_size, width - col_off), Min(tile_size, height - row_off)>>

TileName(y, x) == <<y, x>>

\* array_bounds(h, w, vrt.window_transform(window)) -> (left, bottom, right, top)
ArrayBounds(win) ==
    LET left == VrtOrigin[1] + win[1] * target_res
        top  == VrtOrigin[2] - win[2] * target_res
    IN  <<left, top - win[4] * target_res, left + win[3] * target_res, top>>

\* base_url is None: url = rel_path
Entry(y, x) == Dict(TileName(y, x), TileName(y, x), ArrayBounds(WindowOf(y, x)))

(* --------------------------- manifest store --------------------------- *)
HasKey(m, fn) == \E i \in 1..Len(m) : m[i].filename = fn

\* a manifest kept as a list that every store appends to
UpsertAppend(m, e) == Append(m, e)

\* a store that keeps the entry already present (setdefault)
UpsertKeepFirst(m, e) == IF HasKey(m, e.filename) THEN m ELSE Append(m, e)

\* tile_manifest[fn] = entry, on a dict that keeps insertion order
Upsert(m, e) ==
    IF HasKey(m, e.filename)
    THEN [i \in 1..Len(m) |-> IF m[i].filename = e.filename THEN e ELSE m[i]]
    ELSE Append(m, e)

RECURSIVE LoadItems(_, _, _)
\* the for loop over the loaded list; entry.get on a value that is no object raises,
\* and the except clause is entered with tile_manifest as filled so far
LoadItems(items, i, m) ==
    IF i > Len(items) THEN m
    ELSE IF items[i].kind # "dict" THEN m
    ELSE IF items[i].filename = NoName THEN LoadItems(items, i + 1, m)
    ELSE LoadItems(items, i + 1, Upsert(m, items[i]))

LoadManifest(d) ==
    IF d.kind = "json" THEN LoadItems(d.items, 1, <<>>) ELSE <<>>

\* the order of filenames as strings: tile_y%04d_x%04d
NameLess(a, b) == a[1] < b[1] \/ (a[1] = b[1] /\ a[2] < b[2])

RECURSIVE InsertSorted(_, _)
InsertSorted(s, e) ==
    IF s = <<>> THEN <<e>>
    ELSE IF NameLess(e.filename, Head(s).filename) THEN <<e>> \o s
    ELSE <<Head(s)>> \o InsertSorted(Tail(s), e)

RECURSIVE SortByFilename(_)
\* manifest_list.sort(key=lambda e: e["filename"]), a stable sort
SortByFilename(s) ==
    IF s = <<>> THEN <<>>
    ELSE InsertSorted(SortByFilename(SubSeq(s, 1, Len(s) - 1)), s[Len(s)])

\* the list written in dict order, the sort left out
ManifestListUnsorted(m) == m

ManifestList(m) == SortByFilename(m)

(* ------------------------------- files -------------------------------- *)
\* a resume check that never finds the file
ExistsNever(n) == FALSE

\* out_path.exists()
Exists(n) == n \in DOMAIN files

PutFile(n, status) == [m \in DOMAIN files \cup {n} |-> IF m = n THEN status ELSE files[m]]

RemoveFile(n) == [m \in DOMAIN files \ {n} |-> files[m]]

\* the entry stored only for a tile that is produced (the store placed after the
\* resume check)
RecordIfProduced(m, y, x) == IF Exists(TileName(y, x)) THEN m ELSE Upsert(m, Entry(y, x))

\* the entry is built and stored before the resume check
Record(m, y, x) == Upsert(m, Entry(y, x))

(* --------------------------- classification --------------------------- *)
(* Pixel values are counted in units of 0.0001: 1.0 is 10000, the ocean     *)
(* threshold 0.001 is 10 and the last bin edge 1.0001 is 10001.  A value is *)
(* a number, NaN, +Inf or -Inf; a pixel is a value with its mask bit.       *)
Num(v) == [kind |-> "num", v |-> v]
NaN == [kind |-> "nan", v |-> 0]
PosInf == [kind |-> "posinf", v |-> 0]
NegInf == [kind |-> "neginf", v |-> 0]

Pixel(val, masked) == [val |-> val, masked |-> masked]

\* hex_to_rgb("#1f78b4")
ocean_color == <<31, 120, 180>>

\* hex_to_rgb of hex_colors, low to high
palette ==
    << <<224, 243, 219>>, <<247, 252, 245>>, <<229, 245, 224>>, <<199, 233, 192>>,
       <<161, 217, 155>>, <<116, 196, 118>>, <<65, 171, 93>>, <<35, 139, 69>>,
       <<0, 109, 44>>, <<0, 68, 27>> >>

bins == <<0, 1000, 2000, 3000, 4000, 5000, 6000, 7000, 8000, 9000, 10001>>

\* data_ma.filled(np.nan)
Filled(p) == IF p.masked THEN NaN ELSE p.val

IsFinite(x) == x.kind = "num"

\* a mask that forgets the values that are not finite
NodataMaskOnly(p) == p.masked

\* data_ma.mask | ~np.isfinite(data)
NodataMask(p) == p.masked \/ ~IsFinite(Filled(p))

\* np.clip(data, 0.0, 1.0): NaN stays NaN
Clip01(x) ==
    IF x.kind = "nan" THEN NaN
    ELSE IF x.kind = "posinf" THEN Num(10000)
    ELSE IF x.kind = "neginf" THEN Num(0)
    ELSE IF x.v < 0 THEN Num(0)
    ELSE IF x.v > 10000 THEN Num(10000)
    ELSE x

\* data < 0.001: False for NaN
BelowOcean(x) == x.kind = "num" /\ x.v < 10

\* nodata_mask | (data < 0.001), data being the clipped values
OceanMask(p) == NodataMask(p) \/ BelowOcean(Clip01(Filled(p)))

\* np.digitize with right=True: bins[i-1] < x <= bins[i]
DigitizeRight(v) == Cardinality({ k \in 1..Len(bins) : bins[k] < v })

\* np.digitize(x, bins): the i with bins[i-1] <= x < bins[i]
Digitize(v) == Cardinality({ k \in 1..Len(bins) : bins[k] <= v })

ClipIndex(i, lo, hi) == IF i < lo THEN lo ELSE IF i > hi THEN hi ELSE i

\* the class taken as the value of digitize, the - 1 left out
ClassOfNoShift(v) == ClipIndex(Digitize(v), 0, Len(palette) - 1)

\* np.clip(np.digitize(data, bins) - 1, 0, len(palette) - 1)
ClassOf(v) == ClipIndex(Digitize(v) - 1, 0, Len(palette) - 1)

\* the colour of one pixel: rgb[ocean_mask] = ocean_color, rgb[land_mask] = palette[classes]
Colorize(p) ==
    IF OceanMask(p) THEN ocean_color
    ELSE palette[ClassOf(Clip01(Filled(p)).v) + 1]

ColorizeBlock(b) == [i \in 1..Len(b) |-> Colorize(b[i])]

Values == { Num(v) : v \in (0 - MaxOver)..(10000 + MaxOver) } \cup {NaN, PosInf, NegInf}

Pixels == { Pixel(val, m) : val \in Values, m \in BOOLEAN }

\* the blocks vrt.read may return for a window of one pixel
Blocks == { <<p>> : p \in Pixels }

(* ----------------------- categorical classification ------------------- *)
(* landuse_to_rgba of globio_lu_to_png.py.  A cell of arr is a value as     *)
(* above; colours are RGBA.                                                 *)
\* src.nodata is None
NoNodata == [kind |-> "none", v |-> 0]

\* a level of None in LU_TO_ADV, which is no key of ADVANCED_COLORS
NoLevel == 0

ADVANCED_COLORS ==
    << <<0, 69, 41, 255>>, <<0, 104, 55, 255>>, <<35, 132, 67, 255>>,
       <<65, 171, 93, 255>>, <<120, 198, 121, 255>>, <<173, 221, 142, 255>>,
       <<217, 240, 163, 255>>, <<254, 224, 139, 255>>, <<254, 196, 79, 255>>,
       <<236, 112, 20, 255>> >>

OCEAN == <<25, 118, 174, 255>>
SNOW == <<255, 255, 255, 255>>
URBAN == <<90, 90, 90, 255>>
NO_DATA_COLOR == OCEAN

\* the dict in insertion order, as <<lu_value, adv_level>>
LU_TO_ADV ==
    << <<10, 1>>, <<90, 3>>, <<100, 4>>, <<20, 5>>, <<30, 6>>, <<70, 2>>, <<50, 8>>,
       <<80, NoLevel>>, <<40, NoLevel>>, <<60, NoLevel>> >>

\* arr == c for a number c: False for NaN and the infinities
EqCode(x, c) == x.kind = "num" /\ x.v = c

\* arr == nodata: NaN equals nothing, itself included
EqValue(x, nd) == x.kind # "nan" /\ x = nd

\* a mask that forgets the no-data value
LuNodataMaskNonFinite(x, nd) == ~IsFinite(x)

\* nodata_mask of landuse_to_rgba
LuNodataMask(x, nd) ==
    IF nd # NoNodata THEN EqValue(x, nd) \/ ~IsFinite(x) ELSE ~IsFinite(x)

RECURSIVE PaintLevels(_, _, _)
\* the for loop over LU_TO_ADV.items(): c is the colour of the cell so far
PaintLevels(x, i, c) ==
    IF i > Len(LU_TO_ADV) THEN c
    ELSE IF LU_TO_ADV[i][2] = NoLevel THEN PaintLevels(x, i + 1, c)
    ELSE IF LU_TO_ADV[i][2] \notin DOMAIN ADVANCED_COLORS THEN PaintLevels(x, i + 1, c)
    ELSE IF EqCode(x, LU_TO_ADV[i][1])
         THEN PaintLevels(x, i + 1, ADVANCED_COLORS[LU_TO_ADV[i][2]])
         ELSE PaintLevels(x, i + 1, c)

\* the colour of one cell: the assignments to rgba in the order of the code
LuColor(x, nd) ==
    LET c0 == OCEAN
        c1 == IF EqCode(x, 80) THEN SNOW ELSE c0
        c2 == IF EqCode(x, 40) THEN URBAN ELSE c1
        c3 == IF EqCode(x, 60) THEN OCEAN ELSE c2
        c4 == PaintLevels(x, 1, c3)
    IN  IF LuNodataMask(x, nd) THEN NO_DATA_COLOR ELSE c4

landuse_to_rgba(arr, nd) == [i \in 1..Len(arr) |-> LuColor(arr[i], nd)]

LuValues == { Num(v) : v \in 0..MaxCode } \cup {Num(0 - 1), NaN, PosInf, NegInf}

\* the arrays of one cell reproject_to_world_square may return
LuArrays == { <<x>> : x \in LuValues }

(* ------------------------------ tile names ---------------------------- *)
(* target_res is a float (--resolution, type=float); here it is counted in  *)
(* tenths of a metre.  A name is kept as the tuple of the pieces the        *)
(* f-string joins; the digits of a non-negative integer stand for the       *)
(* integer, so {ty:04d} is ty.                                              *)
\* int(target_res): the fraction is cut off
ResInt(res10) == res10 \div 10

\* f"{in_path.stem}_3857_res{int(target_res)}m_tile_y{ty:04d}_x{tx:04d}.png"
FormatTileName(stem, res10, y, x) ==
    <<stem, "_3857_res", ResInt(res10), "m_tile_y", y, "_x", x, ".png">>

Stems == {"msa", "lu"}

NameArgs ==
    { <<stem, res10, y, x>> : stem \in Stems, res10 \in 10..(10 + MaxResTenths),
                              y \in 0..MaxIndex, x \in 0..MaxIndex }

(* ------------------------------ actions ------------------------------- *)
Running == pc \in {"INIT", "ESTIMATING", "ITERATING", "SAVING", "FINALIZING", "PERSISTING"}

NoPrev == [done |-> FALSE, doc |-> AbsentDoc, deleted |-> {}]

InitProcess ==
    /\ pc = "IDLE"
    /\ tile_manifest = <<>>
    /\ n_tiles_x = 0 /\ n_tiles_y = 0
    /\ ty = 0 /\ tx = 0
    /\ pbar = 0
    /\ runs = 0 /\ events = 0
    /\ startDoc = AbsentDoc
    /\ work = <<>>
    /\ visited = <<>>
    /\ prev = NoPrev
    /\ deleted = {}
    /\ files = [n \in {} |-> "complete"]
    /\ failed = <<>>
    /\ name_args = <<>> /\ tile_names = <<>>

Init ==
    /\ width \in 1..MaxW
    /\ height \in 1..MaxH
    /\ tile_size \in 1..MaxE
    /\ doc \in PriorDocs
    /\ src_crs = "EPSG:4326"
    /\ nodata = NoNodata
    /\ block = <<>> /\ rgb = <<>>
    /\ InitProcess

\* main(): a call of chunk_reproject_to_3857_png begins
Invoke ==
    /\ ~Running
    /\ runs < MaxRuns
    /\ runs' = runs + 1
    /\ pc' = "INIT"
    /\ tile_manifest' = <<>>
    /\ n_tiles_x' = 0 /\ n_tiles_y' = 0
    /\ ty' = 0 /\ tx' = 0
    /\ pbar' = 0
    /\ startDoc' = doc
    /\ work' = <<>>
    /\ visited' = <<>>
    /\ prev' = [done |-> pc = "DONE", doc |-> doc, deleted |-> deleted]
    /\ deleted' = {}
    /\ UNCHANGED <<width, height, tile_size, files, doc, events>>
    /\ failed' = <<>>
    /\ UNCHANGED <<src_crs, nodata, name_args, tile_names, block, rgb>>

\* load the existing manifest, if any
Load ==
    /\ pc = "INIT"
    /\ tile_manifest' = LoadManifest(doc)
    /\ pc' = "ESTIMATING"
    /\ UNCHANGED <<width, height, tile_size, files, doc, n_tiles_x, n_tiles_y, ty, tx,
                   pbar, runs, events, startDoc, work, visited, prev, deleted>>
    /\ UNCHANGED <<src_crs, nodata, name_args, tile_names, failed, block, rgb>>

\* src.crs of a dataset that carries no CRS
NoCrs == "None"

\* whether WarpedVRT(src, crs="EPSG:3857", ...) opens.  The function passes no
\* src_crs and tests nothing itself (src.crs or "EPSG:4326" is only printed); for a
\* source without CRS the outcome is that of the installed rasterio and GDAL,
\* which raise or warp the coordinates as they are
VrtOpens(crs) == IF crs = NoCrs THEN BOOLEAN ELSE {TRUE}

\* open the source and the WarpedVRT, count the tiles
Estimate ==
    /\ pc = "ESTIMATING"
    /\ \E opens \in VrtOpens(src_crs) :
          IF opens
          THEN /\ n_tiles_x' = NTiles(width, tile_size)
               /\ n_tiles_y' = NTiles(height, tile_size)
               /\ ty' = 0 /\ tx' = 0
               /\ pc' = "ITERATING"
          ELSE /\ pc' = "FAILED"
               /\ UNCHANGED <<n_tiles_x, n_tiles_y, ty, tx>>
    /\ UNCHANGED <<width, height, tile_size, files, doc, tile_manifest, pbar, runs,
                   events, startDoc, work, visited, prev, deleted>>
    /\ UNCHANGED <<src_crs, nodata, name_args, tile_names, failed, block, rgb>>

\* the row index advanced after every tile instead of after every row
NextTyEachTile == IF ty + 1 < n_tiles_y THEN ty + 1 ELSE 0

\* the next (ty, tx) of the two nested range() loops
NextTy == IF tx + 1 < n_tiles_x THEN ty ELSE ty + 1
NextTx == IF tx + 1 < n_tiles_x THEN tx + 1 ELSE 0

\* one pass of the loop body, up to the continue or to the call of save()
VisitTile ==
    /\ pc = "ITERATING"
    /\ ty < n_tiles_y
    /\ tx < n_tiles_x
    /\ LET win == WindowOf(ty, tx)
           name == TileName(ty, tx)
       IN  /\ visited' = Append(visited, <<ty, tx, win>>)
           /\ IF win[3] <= 0 \/ win[4] <= 0
              THEN /\ pbar' = pbar + 1
                   /\ ty' = NextTy /\ tx' = NextTx
                   /\ UNCHANGED <<tile_manifest, files, work, pc>>
              ELSE /\ tile_manifest' = Record(tile_manifest, ty, tx)
                   /\ IF Exists(name)
                      THEN /\ pbar' = pbar + 1
                           /\ ty' = NextTy /\ tx' = NextTx
                           /\ UNCHANGED <<files, work, pc>>
                      ELSE \* vrt.read, classification, then save() opens out_path
                           /\ work' = Append(work, name)
                           /\ files' = PutFile(name, "partial")
                           /\ pc' = "SAVING"
                           /\ UNCHANGED <<pbar, ty, tx>>
    /\ UNCHANGED <<width, height, tile_size, doc, n_tiles_x, n_tiles_y, runs, events,
                   startDoc, prev, deleted>>
    /\ UNCHANGED <<src_crs, nodata, name_args, tile_names, failed, block, rgb>>

\* save() returns: the image is written and closed
FinishSave ==
    /\ pc = "SAVING"
    /\ files' = PutFile(TileName(ty, tx), "complete")
    /\ pbar' = pbar + 1
    /\ ty' = NextTy /\ tx' = NextTx
    /\ pc' = "ITERATING"
    /\ UNCHANGED <<width, height, tile_size, doc, tile_manifest, n_tiles_x, n_tiles_y,
                   runs, events, startDoc, work, visited, prev, deleted>>
    /\ UNCHANGED <<src_crs, nodata, name_args, tile_names, failed, block, rgb>>

\* the loops are exhausted
EndLoop ==
    /\ pc = "ITERATING"
    /\ ty >= n_tiles_y
    /\ pc' = "FINALIZING"
    /\ UNCHANGED <<width, height, tile_size, files, doc, tile_manifest, n_tiles_x,
                   n_tiles_y, ty, tx, pbar, runs, events, startDoc, work, visited,
                   prev, deleted>>
    /\ UNCHANGED <<src_crs, nodata, name_args, tile_names, failed, block, rgb>>

\* open(manifest_path, "w") truncates the document
OpenManifest ==
    /\ pc = "FINALIZING"
    /\ doc' = GarbageDoc
    /\ pc' = "PERSISTING"
    /\ UNCHANGED <<width, height, tile_size, files, tile_manifest, n_tiles_x, n_tiles_y,
                   ty, tx, pbar, runs, events, startDoc, work, visited, prev, deleted>>
    /\ UNCHANGED <<src_crs, nodata, name_args, tile_names, failed, block, rgb>>

\* json.dump(manifest_list, f) and the close of the file
DumpManifest ==
    /\ pc = "PERSISTING"
    /\ doc' = JsonDoc(ManifestList(tile_manifest))
    /\ pc' = "DONE"
    /\ UNCHANGED <<width, height, tile_size, files, tile_manifest, n_tiles_x, n_tiles_y,
                   ty, tx, pbar, runs, events, startDoc, work, visited, prev, deleted>>
    /\ UNCHANGED <<src_crs, nodata, name_args, tile_names, failed, block, rgb>>

\* the process is terminated; the function installs no handler and cleans nothing up
Terminate ==
    /\ Running
    /\ events < MaxEvents
    /\ events' = events + 1
    /\ pc' = "KILLED"
    /\ UNCHANGED <<width, height, tile_size, files, doc, tile_manifest, n_tiles_x,
                   n_tiles_y, ty, tx, pbar, runs, startDoc, work, visited, prev, deleted>>
    /\ UNCHANGED <<src_crs, nodata, name_args, tile_names, failed, block, rgb>>

\* between two calls somebody deletes a tile image file
DeleteTile ==
    /\ ~Running
    /\ events < MaxEvents
    /\ \E n \in DOMAIN files :
          /\ files' = RemoveFile(n)
          /\ deleted' = deleted \cup {n}
    /\ events' = events + 1
    /\ UNCHANGED <<width, height, tile_size, doc, pc, tile_manifest, n_tiles_x,
                   n_tiles_y, ty, tx, pbar, runs, startDoc, work, visited, prev>>
    /\ UNCHANGED <<src_crs, nodata, name_args, tile_names, failed, block, rgb>>

Next ==
    \/ Invoke
    \/ Load
    \/ Estimate
    \/ VisitTile
    \/ FinishSave
    \/ EndLoop
    \/ OpenManifest
    \/ DumpManifest
    \/ Terminate
    \/ DeleteTile

Spec == Init /\ [][Next]_vars

(* Planner-only runs: larger grids, an empty output directory, no          *)
(* termination and no deletion.                                            *)
InitGrid ==
    /\ width \in 1..MaxGridDim
    /\ height \in 1..MaxGridDim
    /\ tile_size \in 1..MaxGridEdge
    /\ doc = AbsentDoc
    /\ src_crs = "EPSG:4326"
    /\ nodata = NoNodata
    /\ block = <<>> /\ rgb = <<>>
    /\ InitProcess

NextGrid ==
    \/ Invoke
    \/ Load
    \/ Estimate
    \/ VisitTile
    \/ FinishSave
    \/ EndLoop
    \/ OpenManifest
    \/ DumpManifest

SpecGrid == InitGrid /\ [][NextGrid]_vars

(* Runs that nothing ends from outside, on the output directories of Spec,  *)
(* with the scheduling of a sequential program: a call that has begun takes *)
(* its next step.  Nothing obliges anybody to call again.                   *)
RunStep ==
    \/ Load
    \/ Estimate
    \/ VisitTile
    \/ FinishSave
    \/ EndLoop
    \/ OpenManifest
    \/ DumpManifest

SpecFair == Init /\ [][NextGrid]_vars /\ WF_vars(RunStep)

(* Runs on the rasters of the documented scenario: width 2048, height 1024  *)
(* or 2048, tile_size 1024.                                                 *)
InitScenario ==
    /\ width = 2048
    /\ height \in {1024, 2048}
    /\ tile_size = 1024
    /\ doc \in PriorDocs
    /\ src_crs = "EPSG:4326"
    /\ nodata = NoNodata
    /\ block = <<>> /\ rgb = <<>>
    /\ InitProcess

SpecScenario == InitScenario /\ [][Next]_vars

(* Runs in which producing a tile can raise.                                 *)
\* an except clause around the loop body that goes on with the loop
AfterTileErrorResume == "ITERATING"

\* the loop body has no try: the exception leaves the function and the process ends
AfterTileError == "FAILED"

\* vrt.read or the classification raises on the tile about to be produced
FailTile ==
    /\ pc = "ITERATING"
    /\ ty < n_tiles_y
    /\ tx < n_tiles_x
    /\ events < MaxEvents
    /\ LET win == WindowOf(ty, tx)
       IN  /\ win[3] > 0 /\ win[4] > 0
           /\ ~Exists(TileName(ty, tx))
           /\ visited' = Append(visited, <<ty, tx, win>>)
    /\ tile_manifest' = Record(tile_manifest, ty, tx)
    /\ failed' = <<ty, tx>>
    /\ pc' = AfterTileError
    /\ events' = events + 1
    /\ UNCHANGED <<width, height, tile_size, files, doc, n_tiles_x, n_tiles_y, ty, tx,
                   pbar, runs, startDoc, work, prev, deleted, src_crs, nodata, name_args, tile_names, block, rgb>>

\* save() raises after it has opened out_path; depending on the Pillow version the
\* file it created is left as it is or removed
FailSave ==
    /\ pc = "SAVING"
    /\ events < MaxEvents
    /\ \E left \in BOOLEAN :
          files' = IF left THEN files ELSE RemoveFile(TileName(ty, tx))
    /\ failed' = <<ty, tx>>
    /\ pc' = AfterTileError
    /\ events' = events + 1
    /\ UNCHANGED <<width, height, tile_size, doc, tile_manifest, n_tiles_x, n_tiles_y,
                   ty, tx, pbar, runs, startDoc, work, visited, prev, deleted, src_crs, nodata, name_args, tile_names,
                   block, rgb>>

NextFail ==
    \/ Invoke
    \/ Load
    \/ Estimate
    \/ VisitTile
    \/ FinishSave
    \/ EndLoop
    \/ OpenManifest
    \/ DumpManifest
    \/ FailTile
    \/ FailSave

SpecFail == Init /\ [][NextFail]_vars

(* Runs on sources with and without a CRS, an empty output directory.       *)
InitCrs ==
    /\ width \in 1..MaxW
    /\ height \in 1..MaxH
    /\ tile_size \in 1..MaxE
    /\ doc = AbsentDoc
    /\ src_crs \in {"EPSG:4326", "EPSG:3035", NoCrs}
    /\ nodata = NoNodata
    /\ block = <<>> /\ rgb = <<>>
    /\ InitProcess

SpecCrs == InitCrs /\ [][NextGrid]_vars

(* Classification alone: a block as read for one window, then its colours.  *)
InitClassify ==
    /\ width = 1 /\ height = 1 /\ tile_size = 1
    /\ doc = AbsentDoc
    /\ src_crs = "EPSG:4326"
    /\ nodata = NoNodata
    /\ block \in Blocks
    /\ rgb = <<>>
    /\ InitProcess

\* from vrt.read to the filled rgb array
ClassifyBlock ==
    /\ rgb = <<>>
    /\ rgb' = ColorizeBlock(block)
    /\ UNCHANGED <<width, height, tile_size, files, doc, pc, tile_manifest, n_tiles_x,
                   n_tiles_y, ty, tx, pbar, runs, events, startDoc, work, visited,
                   prev, deleted, src_crs, nodata, name_args, tile_names, failed, block>>

NextClassify == ClassifyBlock

SpecClassify == InitClassify /\ [][NextClassify]_vars

(* Categorical classification alone: an array and a no-data value, then    *)
(* its colours.                                                             *)
InitLanduse ==
    /\ width = 1 /\ height = 1 /\ tile_size = 1
    /\ doc = AbsentDoc
    /\ src_crs = "EPSG:4326"
    /\ nodata \in LuValues \cup {NoNodata}
    /\ block \in LuArrays
    /\ rgb = <<>>
    /\ InitProcess

\* rgba = landuse_to_rgba(data_world, nodata=nodata)
ConvertLanduse ==
    /\ rgb = <<>>
    /\ rgb' = landuse_to_rgba(block, nodata)
    /\ UNCHANGED <<width, height, tile_size, files, doc, pc, tile_manifest, n_tiles_x,
                   n_tiles_y, ty, tx, pbar, runs, events, startDoc, work, visited,
                   prev, deleted, src_crs, nodata, name_args, tile_names, failed, block>>

NextLanduse == ConvertLanduse

SpecLanduse == InitLanduse /\ [][NextLanduse]_vars

(* Naming alone: the tile names of two settings.                            *)
InitNames ==
    /\ width = 1 /\ height = 1 /\ tile_size = 1
    /\ doc = AbsentDoc
    /\ src_crs = "EPSG:4326"
    /\ nodata = NoNodata
    /\ block = <<>> /\ rgb = <<>>
    /\ pc = "IDLE"
    /\ tile_manifest = <<>>
    /\ n_tiles_x = 0 /\ n_tiles_y = 0
    /\ ty = 0 /\ tx = 0
    /\ pbar = 0
    /\ runs = 0 /\ events = 0
    /\ startDoc = AbsentDoc
    /\ work = <<>>
    /\ visited = <<>>
    /\ prev = NoPrev
    /\ deleted = {}
    /\ files = [n \in {} |-> "complete"]
    /\ failed = <<>>
    /\ name_args \in NameArgs \X NameArgs
    /\ tile_names = <<>>

\* tile_name as formatted in two runs of the loop body
FormatNames ==
    /\ tile_names = <<>>
    /\ tile_names' = [i \in 1..2 |-> FormatTileName(name_args[i][1], name_args[i][2],
                                                    name_args[i][3], name_args[i][4])]
    /\ UNCHANGED <<width, height, tile_size, files, doc, pc, tile_manifest, n_tiles_x,
                   n_tiles_y, ty, tx, pbar, runs, events, startDoc, work, visited,
                   prev, deleted, src_crs, nodata, name_args, failed, block, rgb>>

NextNames == FormatNames

SpecNames == InitNames /\ [][NextNames]_vars

(* ===================== properties of the program ====================== *)

(* ---- what the properties are stated with ---- *)
\* ceil(a / b), by its definition
CeilDiv(a, b) == CHOOSE k \in 0..a : k * b >= a /\ (k - 1) * b < a

\* the tile coordinates (row, col) of the grid
GridCoords ==
    { <<y, x>> : y \in 0..(CeilDiv(height, tile_size) - 1),
                 x \in 0..(CeilDiv(width, tile_size) - 1) }

\* the bounding box of tile (row, col) from the grid geometry alone: the affine
\* transform applied to the pixel corners of the clipped window
GridBox(c) ==
    LET x0 == c[2] * tile_size
        y0 == c[1] * tile_size
        x1 == Min((c[2] + 1) * tile_size, width)
        y1 == Min((c[1] + 1) * tile_size, height)
    IN  <<VrtOrigin[1] + x0 * target_res, VrtOrigin[2] - y1 * target_res,
          VrtOrigin[1] + x1 * target_res, VrtOrigin[2] - y0 * target_res>>

Descriptor(c) ==
    [kind |-> "dict", filename |-> c, url |-> c, bbox |-> GridBox(c), crs |-> "EPSG:3857"]

Range(s) == { s[i] : i \in 1..Len(s) }

AllComplete == \A c \in GridCoords : c \in DOMAIN files /\ files[c] = "complete"

LoopOver == pc \in {"FINALIZING", "PERSISTING", "DONE"}

\* a call has completed and nothing was deleted since
JustDone == pc = "DONE" /\ deleted = {}

\* the previous call ran to completion and this one has too
SecondOfTwo == JustDone /\ runs >= 2 /\ prev.done

(* ---- C1 ---- *)
\* C1: a call that completes after a completed call, with no tile file deleted in
\* between, leaves the manifest document equal to the one the earlier call left
\* and has written no tile image file.
C1_Idempotent ==
    (SecondOfTwo /\ prev.deleted = {}) => (doc = prev.doc /\ work = <<>>)

C1_Witness ==
    /\ SecondOfTwo /\ prev.deleted = {}
    /\ Len(doc.items) >= 3
    /\ \E i \in 1..Len(doc.items) : doc.items[i].filename \notin GridCoords

(* ---- C2 ---- *)
\* C2: when exactly one tile file is deleted after a completed call, the next call
\* reads, classifies and writes exactly that tile, and after it every manifest
\* descriptor of a tile of the grid is the one derived from the grid geometry.
C2_OnlyDeletedRecomputed ==
    (SecondOfTwo /\ Cardinality(prev.deleted) = 1) =>
        /\ \A n \in prev.deleted : work = <<n>> /\ n \in DOMAIN files /\ files[n] = "complete"
        /\ \A c \in GridCoords : Descriptor(c) \in Range(doc.items)
        /\ \A i \in 1..Len(doc.items) :
              doc.items[i].filename \in GridCoords =>
                  doc.items[i] = Descriptor(doc.items[i].filename)

C2_Witness ==
    /\ SecondOfTwo /\ Cardinality(prev.deleted) = 1
    /\ Cardinality(GridCoords) >= 2
    /\ Len(work) = 1

(* ---- C3 ---- *)
\* C3: a step of a call leaves every existing tile file as it is, except that the
\* save in progress completes its own file and that a file may be deleted between
\* calls; and the visit of a tile whose file exists reads and writes nothing.
C3_ExistingKept ==
    /\ \A n \in DOMAIN files :
          \/ n \in DOMAIN files' /\ files'[n] = files[n]
          \/ pc = "SAVING" /\ n = TileName(ty, tx) /\ files[n] = "partial"
                /\ n \in DOMAIN files' /\ files'[n] = "complete"
          \/ ~Running /\ n \notin DOMAIN files' /\ n \in deleted'
    /\ (pc = "ITERATING" /\ ty < n_tiles_y /\ TileName(ty, tx) \in DOMAIN files) =>
          (files' = files /\ work' = work)

C3_ExistingFileUntouched == [][C3_ExistingKept]_vars

C3_Witness ==
    /\ runs >= 2
    /\ pc = "ITERATING"
    /\ \E i \in 1..Len(visited) :
          LET n == TileName(visited[i][1], visited[i][2])
          IN  n \in DOMAIN files /\ files[n] = "complete" /\ n \notin Range(work)

(* ---- C4 ---- *)
WindowHas(win, px, py) ==
    /\ win[3] > 0 /\ win[4] > 0
    /\ win[1] <= px /\ px < win[1] + win[3]
    /\ win[2] <= py /\ py < win[2] + win[4]

\* C4: when the tile loop is over it has visited ceil(W/E) * ceil(H/E) coordinates,
\* all different, and every pixel of [0,W) x [0,H) lies in exactly one window of a
\* visited tile that was not skipped for an empty window, and no such window
\* reaches outside the raster.
C4_TilingComplete ==
    LoopOver =>
        /\ Len(visited) = CeilDiv(width, tile_size) * CeilDiv(height, tile_size)
        /\ \A i, j \in 1..Len(visited) :
              (visited[i][1] = visited[j][1] /\ visited[i][2] = visited[j][2]) => i = j
        /\ \A px \in 0..(width - 1), py \in 0..(height - 1) :
              Cardinality({ i \in 1..Len(visited) : WindowHas(visited[i][3], px, py) }) = 1
        /\ \A i \in 1..Len(visited) :
              LET win == visited[i][3]
              IN  (win[3] > 0 /\ win[4] > 0) =>
                     /\ win[1] >= 0 /\ win[2] >= 0
                     /\ win[1] + win[3] <= width
                     /\ win[2] + win[4] <= height

C4_Witness ==
    /\ pc = "DONE"
    /\ width = 3 /\ height = 4 /\ tile_size = 2
    /\ Len(visited) = 4

(* ---- C5 ---- *)
\* C5: the document a completed call persists holds the grid-derived descriptor of
\* every tile of the grid and, under every other filename, the entry loaded from
\* the document found at the start: it is a function of that document and the
\* grid, whichever tile files existed.
C5_ManifestIgnoresFiles ==
    pc = "DONE" =>
        /\ doc.kind = "json"
        /\ Range(doc.items) =
              { Descriptor(c) : c \in GridCoords }
              \cup { e \in Range(LoadManifest(startDoc)) : e.filename \notin GridCoords }

\* every tile skipped, on a prior document that no completed call has corrected
C5_Witness ==
    /\ pc = "DONE"
    /\ work = <<>>
    /\ Len(visited) >= 2
    /\ startDoc.kind = "json"
    /\ \E i \in 1..Len(startDoc.items) :
          /\ startDoc.items[i].kind = "dict"
          /\ startDoc.items[i].filename = <<0, 0>>
          /\ startDoc.items[i].bbox # GridBox(<<0, 0>>)
          /\ LoadManifest(startDoc) # <<>>

(* ---- C6 ---- *)
\* the items of a document that the load reaches: those before the first value
\* that is no object
Reached(d) ==
    IF d.kind # "json" THEN {}
    ELSE { i \in 1..Len(d.items) : \A j \in 1..i : d.items[j].kind = "dict" }

\* C6: the document a completed call persists has at most one descriptor for a
\* filename; for a tile of the grid it is the descriptor computed in this call,
\* whatever the prior document held under that filename, and for any other
\* filename it is the last of the entries loaded under it.
C6_LastWriteWins ==
    pc = "DONE" =>
        /\ \A i, j \in 1..Len(doc.items) :
              doc.items[i].filename = doc.items[j].filename => i = j
        /\ \A c \in GridCoords : Descriptor(c) \in Range(doc.items)
        /\ \A i \in Reached(startDoc) :
              LET e == startDoc.items[i]
              IN  (/\ e.filename # NoName
                   /\ e.filename \notin GridCoords
                   /\ \A j \in Reached(startDoc) :
                         startDoc.items[j].filename = e.filename => j <= i)
                  => e \in Range(doc.items)

\* two loaded entries with one filename and different boxes
C6_Witness ==
    /\ pc = "DONE"
    /\ Reached(startDoc) = {1, 2}
    /\ startDoc.items[1].filename = startDoc.items[2].filename
    /\ startDoc.items[1].filename # NoName
    /\ startDoc.items[1].bbox # startDoc.items[2].bbox

(* ---- C7 ---- *)
\* C7: the document a completed call persists is a list, in strictly ascending
\* filename order, of exactly the values of the in-memory mapping: nothing else of
\* the document it replaces is kept.
C7_PersistSortedReplace ==
    pc = "DONE" =>
        /\ doc.kind = "json"
        /\ \A i, j \in 1..Len(doc.items) :
              i < j => NameLess(doc.items[i].filename, doc.items[j].filename)
        /\ Range(doc.items) = Range(tile_manifest)
        /\ Len(doc.items) = Len(tile_manifest)

\* the mapping is not in filename order, and the old document held an item that
\* is not in the mapping
C7_Witness ==
    /\ pc = "DONE"
    /\ doc.items # tile_manifest
    /\ startDoc.kind = "json"
    /\ \E i \in 1..Len(startDoc.items) : startDoc.items[i] \notin Range(tile_manifest)

(* ---- C8 ---- *)
\* the load raises: the document is no JSON, or the list holds a value that is
\* no object
Malformed(d) ==
    \/ d.kind = "garbage"
    \/ d.kind = "json" /\ \E i \in 1..Len(d.items) : d.items[i].kind # "dict"

\* C8: after the load of a missing or malformed manifest document the mapping is
\* empty, and the tile files are as they were.
C8_LoadDegradesToEmpty ==
    (pc = "ESTIMATING" /\ (startDoc.kind = "absent" \/ Malformed(startDoc))) =>
        tile_manifest = <<>>

(* ---- C9 ---- *)
\* C9: whenever no save is in progress, the state a terminated process leaves
\* included, every tile image file that exists is completely written.
C9_NoPartialFile ==
    pc # "SAVING" => \A n \in DOMAIN files : files[n] = "complete"

(* ---- C10 ---- *)
\* C10: when a call completes after a call that was terminated, every tile of
\* the grid has a completely written image file.
C10_NextRunRepairs ==
    (JustDone /\ runs >= 2 /\ ~prev.done) => AllComplete

(* ---- C11 ---- *)
\* C11: a call that is terminated leaves the manifest document either as it was
\* when the call began or fully replaced by the new list, never truncated.
C11_ManifestAtomic ==
    pc = "KILLED" =>
        \/ doc = startDoc
        \/ doc = JsonDoc(ManifestList(tile_manifest))

(* ---- C12 ---- *)
\* C12: the i-th tile a call visits is tile ((i-1) div n_tiles_x, (i-1) mod
\* n_tiles_x), which is row-major order; the tiles a call writes are written in
\* strictly increasing (row, column) order, in a call that finds no tile file they
\* are the visited tiles one for one, and the progress counter is the number of
\* tiles whose visit is over.
C12_RowMajor ==
    /\ \A i \in 1..Len(visited) :
          /\ visited[i][1] = (i - 1) \div n_tiles_x
          /\ visited[i][2] = (i - 1) % n_tiles_x
    /\ \A i, j \in 1..Len(work) : i < j => NameLess(work[i], work[j])
    /\ runs = 1 =>
          /\ Len(work) = Len(visited)
          /\ \A i \in 1..Len(work) : work[i] = TileName(visited[i][1], visited[i][2])
    /\ pbar = IF pc = "SAVING" THEN Len(visited) - 1 ELSE Len(visited)

C12_Witness ==
    /\ pc = "DONE" /\ runs = 1
    /\ n_tiles_x >= 2 /\ n_tiles_y >= 2
    /\ Len(work) = n_tiles_x * n_tiles_y
    /\ pbar = Len(work)

(* ---- C13 ---- *)
VisitedCoords == { <<visited[i][1], visited[i][2]>> : i \in 1..Len(visited) }

WindowsOf(c) == { visited[i][3] : i \in { j \in 1..Len(visited) : <<visited[j][1], visited[j][2]>> = c } }

\* C13 as stated: on the 2048 x 1024 raster with tile edge 1024 the loop visits
\* (0,0), (0,1), (1,0), (1,1) and the window of (1,1) is (1024, 1024, 1024, 1024).
C13_ScenarioAsStated ==
    (LoopOver /\ width = 2048 /\ height = 1024 /\ tile_size = 1024) =>
        /\ VisitedCoords = {<<0, 0>>, <<0, 1>>, <<1, 0>>, <<1, 1>>}
        /\ WindowsOf(<<1, 1>>) = {<<1024, 1024, 1024, 1024>>}

\* C13 amended: with tile edge 1024 the 2048 x 1024 raster (width 2048, height
\* 1024) has the tiles (0,0), (0,1) only, in that order, and the window of (0,1)
\* is (1024, 0, 1024, 1024), not clipped; the tiles (0,0), (0,1), (1,0), (1,1) and
\* the window (1024, 1024, 1024, 1024) of (1,1) are those of the 2048 x 2048 raster.
C13_Scenario ==
    (LoopOver /\ width = 2048 /\ tile_size = 1024) =>
        /\ height = 1024 =>
              /\ visited = << <<0, 0, <<0, 0, 1024, 1024>> >>,
                              <<0, 1, <<1024, 0, 1024, 1024>> >> >>
        /\ height = 2048 =>
              /\ Len(visited) = 4
              /\ VisitedCoords = {<<0, 0>>, <<0, 1>>, <<1, 0>>, <<1, 1>>}
              /\ WindowsOf(<<1, 1>>) = {<<1024, 1024, 1024, 1024>>}

C13_Witness ==
    /\ pc = "DONE" /\ width = 2048 /\ height = 1024 /\ tile_size = 1024
    /\ Len(visited) = 2
    /\ <<0, 0>> \in DOMAIN files /\ <<0, 1>> \in DOMAIN files

(* ---- C14 ---- *)
\* the pixel is a finite number that is not masked
Plain(p) == ~p.masked /\ p.val.kind = "num"

\* C14 as stated: a plain pixel whose value is the threshold 0.0, 0.1, ..., 0.9 gets
\* the colour of the bucket that begins there, and 1.0 gets the last colour.
C14_BoundaryAsStated ==
    rgb # <<>> =>
        \A k \in 1..Len(palette) :
            /\ (Plain(block[1]) /\ block[1].val.v = bins[k]) => rgb[1] = palette[k]
            /\ (Plain(block[1]) /\ block[1].val.v = 10000) => rgb[1] = palette[Len(palette)]

\* C14 amended: a plain pixel whose value is an interior threshold 0.1, ..., 0.9
\* gets the colour of the bucket that begins there (the higher one), 1.0 gets the
\* last colour, and 0.0 gets the background colour, not the colour of [0.0, 0.1).
C14_Boundary ==
    rgb # <<>> =>
        /\ \A k \in 2..Len(palette) :
              (Plain(block[1]) /\ block[1].val.v = bins[k]) => rgb[1] = palette[k]
        /\ (Plain(block[1]) /\ block[1].val.v = 10000) => rgb[1] = palette[Len(palette)]
        /\ (Plain(block[1]) /\ block[1].val.v = 0) => rgb[1] = ocean_color

C14_Witness ==
    /\ rgb # <<>>
    /\ Plain(block[1]) /\ block[1].val.v = 1000
    /\ rgb[1] = palette[2]

(* ---- C15 ---- *)
\* C15: a pixel that is masked, or not finite, or whose value is below 0.001, gets
\* the ocean colour, which is no colour of the palette, whatever its raw value.
C15_BackgroundFolding ==
    rgb # <<>> =>
        \A i \in 1..Len(block) :
            (block[i].masked \/ block[i].val.kind # "num" \/ block[i].val.v < 10) =>
                /\ rgb[i] = ocean_color
                /\ \A k \in 1..Len(palette) : rgb[i] # palette[k]

\* a masked pixel whose raw value lies in the middle of the scale
C15_Witness ==
    /\ rgb # <<>>
    /\ block[1].masked /\ block[1].val = Num(5000)
    /\ rgb[1] = ocean_color

(* ---- C18 ---- *)
\* the value after clipping to [0, 1]
Clipped(v) == IF v > 10000 THEN 10000 ELSE v

\* C18: a plain pixel of value 0.001 or more gets palette[i] for the one i with
\* thresholds[i] <= clipped value < thresholds[i+1], an index of the palette;
\* 0.15 gets index 1 and 1.0 gets index 9 (counted from 0).
C18_Bucket ==
    rgb # <<>> =>
        /\ (Plain(block[1]) /\ block[1].val.v >= 10) =>
              \E i \in 1..Len(palette) :
                  /\ bins[i] <= Clipped(block[1].val.v)
                  /\ Clipped(block[1].val.v) < bins[i + 1]
                  /\ rgb[1] = palette[i]
        /\ (Plain(block[1]) /\ block[1].val.v = 1500) => rgb[1] = palette[1 + 1]
        /\ (Plain(block[1]) /\ block[1].val.v = 10000) => rgb[1] = palette[9 + 1]

C18_Witness ==
    /\ rgb # <<>>
    /\ Plain(block[1]) /\ block[1].val.v = 1500
    /\ rgb[1] = <<247, 252, 245>>


(* ---- C16 ---- *)
\* C16: every descriptor of the manifest a call has persisted is the descriptor of
\* a tile window of the destination grid, its bounding box the one the grid geometry
\* gives, whatever document the call found at its start.
C16_DescriptorsFromGrid ==
    pc = "DONE" =>
        /\ doc.kind = "json"
        /\ \A i \in 1..Len(doc.items) :
              \E c \in GridCoords : doc.items[i] = Descriptor(c)


(* ---- C17 ---- *)
\* the phase of the run: SAVING is within ITERATING, PERSISTING within FINALIZING
Phase(p) ==
    CASE p = "IDLE" -> 0
      [] p = "INIT" -> 1
      [] p = "ESTIMATING" -> 2
      [] p \in {"ITERATING", "SAVING"} -> 3
      [] p \in {"FINALIZING", "PERSISTING"} -> 4
      [] p = "DONE" -> 5

\* a step stays in its phase or enters the next one (or a new call begins), and the
\* document changes only in FINALIZING, every tile coordinate visited
C17_Step ==
    /\ \/ Phase(pc') = Phase(pc)
       \/ Phase(pc') = Phase(pc) + 1
       \/ pc \in {"IDLE", "DONE"} /\ pc' = "INIT"
    /\ doc' # doc =>
          /\ Phase(pc) = 4
          /\ VisitedCoords = GridCoords
          /\ Len(visited) = Cardinality(GridCoords)

\* at DONE every tile coordinate has its image file and its descriptor
C17_AtDone ==
    pc = "DONE" =>
        /\ doc.kind = "json"
        /\ \A c \in GridCoords :
              /\ c \in DOMAIN files /\ files[c] = "complete"
              /\ Descriptor(c) \in Range(doc.items)

\* C17: a run with no error goes through INIT, ESTIMATING, ITERATING, FINALIZING
\* and DONE in that order and does reach DONE; the manifest is persisted only after
\* every tile coordinate was visited; at DONE every tile coordinate has an image
\* file and a descriptor in the persisted manifest.
C17_RunPhases ==
    /\ [][C17_Step]_vars
    /\ [](C17_AtDone)
    /\ (pc = "INIT") ~> (pc = "DONE")

C17_Witness ==
    /\ pc = "DONE" /\ runs = 1
    /\ Len(visited) >= 4
    /\ Len(doc.items) = Len(visited)
    /\ AllComplete


(* ---- C19 ---- *)
\* once a tile has failed: the run is over, the failing tile is the last coordinate
\* visited, the document is the one the run found, and every other tile this run
\* wrote is on disk complete
C19_Aborted ==
    failed # <<>> =>
        /\ pc = "FAILED"
        /\ <<visited[Len(visited)][1], visited[Len(visited)][2]>> = failed
        /\ doc = startDoc
        /\ \A n \in Range(work) :
              n # TileName(failed[1], failed[2]) => (n \in DOMAIN files /\ files[n] = "complete")

\* the failure itself, and all that follows it in the run, leaves every file but
\* the failing tile's as it was
C19_FilesKept ==
    failed' # <<>> =>
        \A n \in DOMAIN files :
            n # TileName(failed'[1], failed'[2]) => (n \in DOMAIN files' /\ files'[n] = files[n])

\* C19: a failure of the window read, the classification or the encoding of a tile
\* ends the run at that tile: no later tile coordinate is processed, the manifest
\* document is not rewritten in that run, and the tile files written before the
\* failure stay on disk unchanged.
C19_TileErrorAborts ==
    /\ [](C19_Aborted)
    /\ [][C19_FilesKept]_vars

\* a failure on a later tile of a run that had a document to lose and files written
C19_Witness ==
    /\ pc = "FAILED"
    /\ failed # <<>> /\ failed # <<0, 0>>
    /\ work # <<>> /\ work[1] # TileName(failed[1], failed[2])
    /\ startDoc.kind = "json" /\ startDoc.items # <<>>


(* ---- C20 ---- *)
\* C20: on a source with no CRS the run fails before any tile work: it never gets
\* to the loop, visits no tile and writes no file.
C20_NoCrsFailsFast ==
    src_crs = NoCrs =>
        /\ pc \in {"IDLE", "INIT", "ESTIMATING", "FAILED"}
        /\ visited = <<>>
        /\ DOMAIN files = {}


(* ---- C21 ---- *)
\* the code-to-colour table as the claim states it: 80 snow, 40 urban, 60 water,
\* the seven vegetation and desert codes their level colour, any other code the
\* fallback (ocean) colour
TableColor(code) ==
    CASE code = 80 -> <<255, 255, 255, 255>>
      [] code = 40 -> <<90, 90, 90, 255>>
      [] code = 60 -> <<25, 118, 174, 255>>
      [] code = 10 -> <<0, 69, 41, 255>>
      [] code = 20 -> <<120, 198, 121, 255>>
      [] code = 30 -> <<173, 221, 142, 255>>
      [] code = 50 -> <<254, 224, 139, 255>>
      [] code = 70 -> <<0, 104, 55, 255>>
      [] code = 90 -> <<35, 132, 67, 255>>
      [] code = 100 -> <<65, 171, 93, 255>>
      [] OTHER -> <<25, 118, 174, 255>>

\* C21: the colour of a cell is that of its code in the table, whatever else the
\* call is given; a code outside the table gets the ocean colour; a cell that
\* equals the no-data value or is not finite gets the no-data colour, even when
\* the no-data value is a code of the table.
C21_Categorical ==
    rgb # <<>> =>
        \A i \in 1..Len(block) :
            /\ Len(rgb) = Len(block)
            /\ IF block[i].kind # "num" \/ block[i] = nodata
               THEN rgb[i] = <<25, 118, 174, 255>>
               ELSE rgb[i] = TableColor(block[i].v)

\* the no-data value is the forest code and the cell holds it
C21_Witness ==
    /\ rgb # <<>>
    /\ nodata = Num(10) /\ block[1] = Num(10)
    /\ rgb[1] = <<25, 118, 174, 255>>


(* ---- C22 ---- *)
\* C22: every tile coordinate the loop enumerates lies in the grid (row below
\* ceil(H/E), column below ceil(W/E)) and has a window of width and height from 1
\* to E that ends within the raster; so the branch that skips an empty window is
\* never taken, and every enumerated coordinate has its descriptor in the manifest.
C22_WindowsNonEmpty ==
    \A i \in 1..Len(visited) :
        LET row == visited[i][1]
            col == visited[i][2]
            win == visited[i][3]
        IN  /\ row < CeilDiv(height, tile_size)
            /\ col < CeilDiv(width, tile_size)
            /\ win[1] = col * tile_size /\ win[2] = row * tile_size
            /\ 1 <= win[3] /\ win[3] <= tile_size
            /\ 1 <= win[4] /\ win[4] <= tile_size
            /\ win[1] + win[3] <= width
            /\ win[2] + win[4] <= height
            /\ HasKey(tile_manifest, TileName(row, col))

\* a first run over a grid whose last column and last row are clipped
C22_Witness ==
    /\ pc = "DONE" /\ runs = 1
    /\ Len(visited) >= 4
    /\ Len(tile_manifest) = Len(visited)
    /\ visited[Len(visited)][3][3] < tile_size
    /\ visited[Len(visited)][3][4] < tile_size


(* ---- C23 ---- *)
\* C23: two settings that differ in the source stem, the target resolution, the
\* tile row or the tile column have different tile names.
C23_NameInjective ==
    (tile_names # <<>> /\ name_args[1] # name_args[2]) => tile_names[1] # tile_names[2]

=============================================================================
